---- MODULE Spec2Model ----
(***************************************************************************)
(* Model of the Review Runner tracking server: the GET /:uuid handler of   *)
(* src/unnamed/part_000 running concurrently for several HTTP requests     *)
(* against one shared Data Store (ReviewRequest rows and Event rows).      *)
(*                                                                         *)
(* A handler is an async function: it runs synchronously up to the next    *)
(* await, where the Data Store executes the call it issued.  Each action   *)
(* below is one Data Store call completing (or failing) together with the  *)
(* synchronous code of the handler that follows it up to the next await.   *)
(* The statements of a transaction stay invisible to every other request   *)
(* until the commit, so the model suspends a transaction at two places:    *)
(* before its first statement (the UPDATE, which may have to wait for the  *)
(* row) and before its last statement and commit.                          *)
(***************************************************************************)
EXTENDS Naturals, Sequences, FiniteSets

\* ------------------------------------------------------------ bounds
\* Number of tracking requests the server receives in a run.
MaxRequests == 3
\* Number of requests in the runs that range over every identifier.
MaxWideRequests == 2

\* ------------------------------------------------------------ program constants
\* part_000:76  uuid.length < 10
MinUuidLength == 10
\* part_000:138 !reviewRequest.clicked_at : a null clicked_at
NullTime == 0

Requests == 1..MaxRequests

\* ------------------------------------------------------------ identifiers
\* A path segment is the sequence of its characters.
HexDigits == {"0", "1", "2", "3", "4", "5", "6", "7", "8", "9",
              "a", "b", "c", "d", "e", "f"}

\* "abc" (spec.md section 8)
IdAbc == <<"a", "b", "c">>
\* nine characters: the longest identifier the validation rejects
IdNine == <<"1", "2", "3", "4", "5", "6", "7", "8", "9">>
\* ten characters: the shortest identifier the validation accepts
IdTen == <<"1", "2", "3", "4", "5", "6", "7", "8", "9", "0">>
\* "invalid-uuid" (README.md:136)
IdInvalidUuid == <<"i", "n", "v", "a", "l", "i", "d", "-", "u", "u", "i", "d">>
\* "550e8400-e29b-41d4-a716-446655440000" (README.md:139), the tracking_uuid of row 1
IdUuid1 == <<"5", "5", "0", "e", "8", "4", "0", "0", "-",
             "e", "2", "9", "b", "-", "4", "1", "d", "4", "-",
             "a", "7", "1", "6", "-",
             "4", "4", "6", "6", "5", "5", "4", "4", "0", "0", "0", "0">>
\* "trk-request-2", the opaque (non RFC-4122) tracking_uuid of row 2
IdOpaque2 == <<"t", "r", "k", "-", "r", "e", "q", "u", "e", "s", "t", "-", "2">>

Identifiers == {IdAbc, IdNine, IdTen, IdInvalidUuid, IdUuid1, IdOpaque2}

ContendedIds == {IdInvalidUuid, IdUuid1}

\* RFC-4122 textual form: 8-4-4-4-12 hexadecimal digits.
IsWellFormedUuid(s) ==
    /\ Len(s) = 36
    /\ \A i \in 1..Len(s) :
          IF i \in {9, 14, 19, 24} THEN s[i] = "-" ELSE s[i] \in HexDigits

\* ------------------------------------------------------------ Data Store
RowIds == {1, 2}

TrackingUuid(id) == IF id = 1 THEN IdUuid1 ELSE IdOpaque2

VARIABLES
    reviewRequests,  \* table ReviewRequest: id -> row
    events,          \* table Event: the rows in insertion order
    now,             \* the wall clock read by new Date()
    pc,              \* per request: the await the handler is suspended at
    uuid,            \* per request: req.params.uuid
    reviewRequest,   \* per request: result of findUnique, <<>> = null, <<row>> = a row
    isFirstClick,    \* per request: const isFirstClick
    txbuf,           \* per request: writes of its open transaction, not yet committed
    calls,           \* per request: Data Store calls issued, in order (history)
    commits,         \* per request: its committed writes, in order (history)
    rejected,        \* per request: the await at which a Data Store call rejected, or "none" (history)
    responses,       \* per request: responses sent, in order
    businesses,      \* table Business: id -> row (the business of ReviewRequest id)
    customers,       \* table Customer: id -> row (the customer of ReviewRequest id)
    redirectUrl,     \* per request: const redirectUrl, <<>> until resolved
    route,           \* per request: the route that matched it, "" until it arrives (history)
    prisma,          \* the exported prisma: "client" or "mock"
    server,          \* the http server and its process: "listening", "closing", "exited"
    signals          \* termination signals delivered so far (history)

dbVars == <<reviewRequests, events, businesses, customers>>
localVars == <<uuid, reviewRequest, isFirstClick, txbuf, redirectUrl>>
histVars == <<calls, commits, rejected>>
procVars == <<prisma, server, signals>>
vars == <<reviewRequests, events, now, pc, uuid, reviewRequest, isFirstClick,
          txbuf, calls, commits, rejected, responses, businesses, customers,
          redirectUrl, route, prisma, server, signals>>

\* A nullable text column holds <<>> (null) or <<text>>.
NoUrl == <<>>
GoogleReviewUrl1 == "https://g.page/r/review"
ReviewUrl1 == "https://example.com/review"
Website1 == "https://example.com"

InitRow(id) ==
    [ id |-> id,
      is_active |-> TRUE,
      status |-> "PENDING",
      clicked_at |-> NullTime,
      click_metadata |-> <<>>,
      review_url |-> IF id = 1 THEN <<ReviewUrl1>> ELSE NoUrl ]

InitBusiness(id) ==
    [ name |-> "Business",
      google_review_url |-> IF id = 1 THEN <<GoogleReviewUrl1>> ELSE NoUrl,
      website |-> IF id = 1 THEN <<Website1>> ELSE NoUrl ]

InitCustomer(id) == [ first_name |-> "Customer" ]

\* createPrismaClient(): the constructed client, or null when new PrismaClient throws
CreatePrismaClient(constructed) == IF constructed THEN "client" ELSE "null"

\* if (!prisma) { prisma = { ...mock... } }
InstallClient(created) == IF created = "null" THEN "mock" ELSE created

\* The state once the modules are loaded and the server listens: the client
\* is the one lib/prisma exports, row 1 has the links google, review, website.
InitWith(client, google, review, website) ==
    /\ reviewRequests = [id \in RowIds |->
                            IF id = 1 THEN [InitRow(id) EXCEPT !.review_url = review]
                                      ELSE InitRow(id)]
    /\ businesses = [id \in RowIds |->
                        IF id = 1 THEN [InitBusiness(id) EXCEPT !.google_review_url = google,
                                                                !.website = website]
                                  ELSE InitBusiness(id)]
    /\ customers = [id \in RowIds |-> InitCustomer(id)]
    /\ events = <<>>
    /\ now = 1
    /\ pc = [r \in Requests |-> "idle"]
    /\ uuid = [r \in Requests |-> <<>>]
    /\ reviewRequest = [r \in Requests |-> <<>>]
    /\ isFirstClick = [r \in Requests |-> FALSE]
    /\ txbuf = [r \in Requests |-> <<>>]
    /\ redirectUrl = [r \in Requests |-> <<>>]
    /\ route = [r \in Requests |-> ""]
    /\ calls = [r \in Requests |-> <<>>]
    /\ commits = [r \in Requests |-> <<>>]
    /\ rejected = [r \in Requests |-> "none"]
    /\ responses = [r \in Requests |-> <<>>]
    /\ prisma = client
    /\ server = "listening"
    /\ signals = {}

Init ==
    InitWith(InstallClient(CreatePrismaClient(TRUE)),
             InitBusiness(1).google_review_url, InitRow(1).review_url, InitBusiness(1).website)

\* ------------------------------------------------------------ helpers
\* res.status(code).send(page); firstClick is the flag handed to generateRedirectPage
Respond(r, code, firstClick) ==
    /\ responses' = [responses EXCEPT ![r] = Append(@, [status |-> code, firstClick |-> firstClick])]
    /\ pc' = [pc EXCEPT ![r] = "done"]

\* mutant: the catch block issues the lookup again instead of answering
CatchRetries(r) ==
    /\ rejected' = [rejected EXCEPT ![r] = pc[r]]
    /\ pc' = [pc EXCEPT ![r] = "findUnique"]
    /\ UNCHANGED <<responses, procVars>>

\* mutant: the catch block logs the error and sends nothing
CatchSendsNothing(r) ==
    /\ rejected' = [rejected EXCEPT ![r] = pc[r]]
    /\ pc' = [pc EXCEPT ![r] = "done"]
    /\ UNCHANGED <<responses, procVars>>

\* mutant: the rejection is not caught and takes the process down
CatchExits(r) ==
    /\ rejected' = [rejected EXCEPT ![r] = pc[r]]
    /\ Respond(r, 500, FALSE)
    /\ server' = "exited"
    /\ UNCHANGED <<prisma, signals>>

\* the awaited call rejects: catch (error) { ... res.status(500) }
Catch(r) ==
    /\ rejected' = [rejected EXCEPT ![r] = pc[r]]
    /\ Respond(r, 500, FALSE)
    /\ UNCHANGED procVars

\* the handler hands the Data Store the calls cs, in order
Issue(r, cs) == calls' = [calls EXCEPT ![r] = @ \o cs]

\* mutant: the comparison is <= instead of <
InvalidUuidOffByOne(id) == Len(id) = 0 \/ Len(id) <= MinUuidLength

\* if (!uuid || typeof uuid !== 'string' || uuid.length < 10)
InvalidUuid(id) == Len(id) = 0 \/ Len(id) < MinUuidLength

\* include: { customers: true, businesses: true }
Include(k) ==
    [ id |-> reviewRequests[k].id,
      is_active |-> reviewRequests[k].is_active,
      status |-> reviewRequests[k].status,
      clicked_at |-> reviewRequests[k].clicked_at,
      click_metadata |-> reviewRequests[k].click_metadata,
      review_url |-> reviewRequests[k].review_url,
      businesses |-> businesses[k],
      customers |-> customers[k] ]

\* mutant: the where clause is ignored and the first row comes back
FindUniqueResultAnyRow(id) == <<Include(CHOOSE k \in RowIds : TRUE)>>

\* prisma.reviewRequest.findUnique({ where: { tracking_uuid } })
FindUniqueResult(id) ==
    LET hit == {k \in RowIds : TrackingUuid(k) = id}
    IN  IF hit = {} THEN <<>> ELSE <<Include(CHOOSE k \in hit : TRUE)>>

\* a || b of JavaScript on nullable text: null and "" are falsy
Truthy(v) == v # <<>> /\ v[1] # ""
Or(a, b) == IF Truthy(a) THEN a ELSE b

FallbackUrl == "https://google.com/maps"

\* mutant: the request's own review_url is tried before the business's Google link
RedirectUrlReviewUrlFirst(row) ==
    Or(Or(Or(row.review_url, row.businesses.google_review_url), row.businesses.website),
       <<FallbackUrl>>)

\* businesses.google_review_url || review_url || businesses.website || 'https://google.com/maps'
RedirectUrl(row) ==
    Or(Or(Or(row.businesses.google_review_url, row.review_url), row.businesses.website),
       <<FallbackUrl>>)

\* mutant: the mock's findUnique resolves instead of rejecting
MockFindUniqueResolves(op) == op \in {"$queryRaw", "update", "event.create", "$transaction"}

\* the mock's operations: every one returns Promise.reject(...)
MockRejects(op) == op \in {"$queryRaw", "findUnique", "update", "event.create", "$transaction"}

\* whether the Data Store call op of the exported client can resolve
Resolves(op) == prisma = "client" \/ ~MockRejects(op)

\* mutant: the gate forgets the OPTED_OUT status
InactiveIgnoresOptOut(row) == ~row.is_active

\* if (!reviewRequest.is_active || reviewRequest.status === 'OPTED_OUT')
Inactive(row) == ~row.is_active \/ row.status = "OPTED_OUT"

\* const isFirstClick = !reviewRequest.clicked_at
IsFirstClick(row) == row.clicked_at = NullTime

\* data of tx.reviewRequest.update({ where: { id: reviewRequest.id }, data })
UpdateWrite(row, t) ==
    [ op |-> "update",
      id |-> row.id,
      clicked_at |-> t,
      status |-> "CLICKED",
      click_metadata |-> <<[timestamp |-> t, trackingServer |-> TRUE]>>,
      event |-> <<>> ]

\* an event.create({ data })
InsertWrite(event) ==
    [ op |-> "insert",
      id |-> event.review_request_id,
      clicked_at |-> NullTime,
      status |-> "",
      click_metadata |-> <<>>,
      event |-> <<event>> ]

\* mutant: the first-click event carries the metadata of the repeat branch
FirstClickEventUnflagged(row) ==
    [ review_request_id |-> row.id,
      type |-> "REQUEST_CLICKED",
      source |-> "tracking_server",
      isFirstClick |-> FALSE,
      repeatClick |-> TRUE,
      previousClickAt |-> row.clicked_at ]

\* data of tx.event.create on the first click (no previousClickAt, no repeatClick)
FirstClickEvent(row) ==
    [ review_request_id |-> row.id,
      type |-> "REQUEST_CLICKED",
      source |-> "tracking_server",
      isFirstClick |-> TRUE,
      repeatClick |-> FALSE,
      previousClickAt |-> NullTime ]

\* data of prisma.event.create on a repeat click
RepeatClickEvent(row) ==
    [ review_request_id |-> row.id,
      type |-> "REQUEST_CLICKED",
      source |-> "tracking_server",
      isFirstClick |-> FALSE,
      repeatClick |-> TRUE,
      previousClickAt |-> row.clicked_at ]

\* mutant: the repeat branch also updates the ReviewRequest row
RepeatClickWritesWithUpdate(row) ==
    <<UpdateWrite(row, row.clicked_at), InsertWrite(RepeatClickEvent(row))>>

\* mutant: the repeat branch inserts its event twice
RepeatClickWritesTwice(row) ==
    <<InsertWrite(RepeatClickEvent(row)), InsertWrite(RepeatClickEvent(row))>>

\* mutant: the repeat branch answers without its insert having reached the table
RepeatClickWritesNothing(row) == <<>>

\* the writes of the repeat-click branch
RepeatClickWrites(row) == <<InsertWrite(RepeatClickEvent(row))>>

\* mutant: the update has no where clause, it sets the columns of every row
RowsAfterUpdatesEveryRow(rows, w) ==
    IF w.op = "update"
    THEN [k \in DOMAIN rows |-> [rows[k] EXCEPT !.clicked_at = w.clicked_at,
                                                 !.status = w.status,
                                                 !.click_metadata = w.click_metadata]]
    ELSE rows

\* table ReviewRequest after one write
RowsAfter(rows, w) ==
    IF w.op = "update"
    THEN [rows EXCEPT ![w.id] = [@ EXCEPT !.clicked_at = w.clicked_at,
                                          !.status = w.status,
                                          !.click_metadata = w.click_metadata]]
    ELSE rows

\* mutant: the insert is an upsert on the request, it overwrites the request's Event
EventsAfterUpserts(evs, w) ==
    IF w.op # "insert" THEN evs
    ELSE IF \E i \in 1..Len(evs) : evs[i].review_request_id = w.id
    THEN [i \in 1..Len(evs) |-> IF evs[i].review_request_id = w.id THEN w.event[1] ELSE evs[i]]
    ELSE Append(evs, w.event[1])

\* table Event after one write
EventsAfter(evs, w) == IF w.op = "insert" THEN Append(evs, w.event[1]) ELSE evs

RECURSIVE RowsAfterAll(_, _)
RowsAfterAll(rows, ws) ==
    IF ws = <<>> THEN rows ELSE RowsAfterAll(RowsAfter(rows, Head(ws)), Tail(ws))

RECURSIVE EventsAfterAll(_, _)
EventsAfterAll(evs, ws) ==
    IF ws = <<>> THEN evs ELSE EventsAfterAll(EventsAfter(evs, Head(ws)), Tail(ws))

\* what the history keeps of a committed write: the write, the stored row it
\* met at commit time and the stored row the commit left
Committed(ws) ==
    [i \in 1..Len(ws) |-> [ write |-> ws[i],
                            before |-> reviewRequests[ws[i].id],
                            after |-> RowsAfterAll(reviewRequests, ws)[ws[i].id] ]]

\* the writes ws of request r reach the tables in one step
CommitWrites(r, ws) ==
    /\ reviewRequests' = RowsAfterAll(reviewRequests, ws)
    /\ events' = EventsAfterAll(events, ws)
    /\ commits' = [commits EXCEPT ![r] = @ \o Committed(ws)]
    /\ UNCHANGED <<businesses, customers>>

\* The UPDATE of an open transaction holds the lock of its row until the
\* transaction ends (the Data Store is PostgreSQL, README.md:25): meanwhile
\* another UPDATE of that row waits.
RowLocked(id) ==
    \E q \in Requests : \E i \in 1..Len(txbuf[q]) :
        txbuf[q][i].op = "update" /\ txbuf[q][i].id = id

\* mutant: the two writes are not in a transaction, a failure keeps what was written
RollbackKeepsWrites(r) ==
    /\ CommitWrites(r, txbuf[r])
    /\ txbuf' = [txbuf EXCEPT ![r] = <<>>]

\* a failed transaction leaves nothing of its writes
Rollback(r) ==
    /\ txbuf' = [txbuf EXCEPT ![r] = <<>>]
    /\ UNCHANGED <<dbVars, commits>>

\* ------------------------------------------------------------ GET /:uuid
\* The request arrives on a listening server; the handler validates and
\* issues the lookup.  Requests are numbered in arrival order.
Receive(r, id) ==
    /\ pc[r] = "idle"
    /\ \A q \in Requests : q < r => pc[q] # "idle"
    /\ server = "listening"
    /\ route' = [route EXCEPT ![r] = "/:uuid"]
    /\ uuid' = [uuid EXCEPT ![r] = id]
    /\ IF InvalidUuid(id)
       THEN /\ Respond(r, 400, FALSE)
            /\ UNCHANGED calls
       ELSE /\ Issue(r, <<"findUnique">>)
            /\ pc' = [pc EXCEPT ![r] = "findUnique"]
            /\ UNCHANGED responses
    /\ UNCHANGED <<dbVars, now, reviewRequest, isFirstClick, txbuf, redirectUrl,
                   commits, rejected, procVars>>

\* The lookup completes; the handler runs the not-found check, the activity
\* gate and the first-click detection, and issues its write.
FindUnique(r) ==
    /\ pc[r] = "findUnique"
    /\ Resolves("findUnique")
    /\ LET res == FindUniqueResult(uuid[r])
       IN  /\ reviewRequest' = [reviewRequest EXCEPT ![r] = res]
           /\ IF res = <<>>
              THEN /\ Respond(r, 404, FALSE)
                   /\ UNCHANGED <<isFirstClick, calls>>
              ELSE IF Inactive(res[1])
              THEN /\ Respond(r, 410, FALSE)
                   /\ UNCHANGED <<isFirstClick, calls>>
              ELSE /\ isFirstClick' = [isFirstClick EXCEPT ![r] = IsFirstClick(res[1])]
                   /\ UNCHANGED responses
                   /\ IF IsFirstClick(res[1])
                      THEN /\ Issue(r, <<"$transaction">>)
                           /\ pc' = [pc EXCEPT ![r] = "txUpdate"]
                      ELSE /\ Issue(r, <<"event.create">>)
                           /\ pc' = [pc EXCEPT ![r] = "eventCreate"]
    /\ UNCHANGED <<dbVars, now, uuid, txbuf, redirectUrl, commits, rejected, route, procVars>>

\* The lookup rejects; the catch block answers 500.
FindUniqueFails(r) ==
    /\ pc[r] = "findUnique"
    /\ Catch(r)
    /\ UNCHANGED <<dbVars, now, localVars, calls, commits, route>>

\* prisma.$transaction opens the transaction and calls the callback, which
\* evaluates new Date() and runs tx.reviewRequest.update inside the
\* transaction, once no other open transaction holds the row; the callback
\* then issues tx.event.create.  Every reading of the clock is later than
\* the one before.
TxUpdate(r) ==
    /\ pc[r] = "txUpdate"
    /\ Resolves("$transaction")
    /\ ~RowLocked(reviewRequest[r][1].id)
    /\ now' = now + 1
    /\ txbuf' = [txbuf EXCEPT ![r] = Append(@, UpdateWrite(reviewRequest[r][1], now))]
    /\ Issue(r, <<"tx.reviewRequest.update", "tx.event.create">>)
    /\ pc' = [pc EXCEPT ![r] = "txCreate"]
    /\ UNCHANGED <<dbVars, uuid, reviewRequest, isFirstClick, redirectUrl, commits,
                   rejected, responses, route, procVars>>

\* tx.event.create completes inside the transaction, the callback returns and
\* the transaction commits: its writes reach the tables together.  The
\* handler resolves the redirect and answers 200.
TxCreate(r) ==
    /\ pc[r] = "txCreate"
    /\ Resolves("$transaction")
    /\ CommitWrites(r, Append(txbuf[r], InsertWrite(FirstClickEvent(reviewRequest[r][1]))))
    /\ txbuf' = [txbuf EXCEPT ![r] = <<>>]
    /\ redirectUrl' = [redirectUrl EXCEPT ![r] = RedirectUrl(reviewRequest[r][1])]
    /\ Respond(r, 200, isFirstClick[r])
    /\ UNCHANGED <<now, uuid, reviewRequest, isFirstClick, calls, rejected, route, procVars>>

\* The transaction rejects (opening it or its update at "txUpdate", its event
\* insert or its commit at "txCreate"): prisma.$transaction rolls back what
\* the transaction wrote and rejects; the catch block answers 500.
TxFails(r) ==
    /\ pc[r] \in {"txUpdate", "txCreate"}
    /\ Rollback(r)
    /\ Catch(r)
    /\ UNCHANGED <<now, uuid, reviewRequest, isFirstClick, redirectUrl, calls, route>>

\* The standalone prisma.event.create of a repeat click completes; the
\* handler resolves the redirect and answers 200.
EventCreate(r) ==
    /\ pc[r] = "eventCreate"
    /\ Resolves("event.create")
    /\ CommitWrites(r, RepeatClickWrites(reviewRequest[r][1]))
    /\ redirectUrl' = [redirectUrl EXCEPT ![r] = RedirectUrl(reviewRequest[r][1])]
    /\ Respond(r, 200, isFirstClick[r])
    /\ UNCHANGED <<now, uuid, reviewRequest, isFirstClick, txbuf, calls, rejected,
                   route, procVars>>

\* The standalone prisma.event.create rejects; the catch block answers 500.
EventCreateFails(r) ==
    /\ pc[r] = "eventCreate"
    /\ Catch(r)
    /\ UNCHANGED <<dbVars, now, localVars, calls, commits, route>>

\* ------------------------------------------------------------ GET /health, GET /
\* app.get('/health'): res.json of a static body, no Data Store call
Health(r) ==
    /\ pc[r] = "idle"
    /\ \A q \in Requests : q < r => pc[q] # "idle"
    /\ server = "listening"
    /\ route' = [route EXCEPT ![r] = "/health"]
    /\ Respond(r, 200, FALSE)
    /\ UNCHANGED <<dbVars, now, localVars, histVars, procVars>>

\* app.get('/'): res.json of a static body, no Data Store call
Root(r) ==
    /\ pc[r] = "idle"
    /\ \A q \in Requests : q < r => pc[q] # "idle"
    /\ server = "listening"
    /\ route' = [route EXCEPT ![r] = "/"]
    /\ Respond(r, 200, FALSE)
    /\ UNCHANGED <<dbVars, now, localVars, histVars, procVars>>

\* ------------------------------------------------------------ shutdown
TerminationSignals == {"SIGTERM", "SIGINT"}

\* mutant: the signal handler exits without waiting for server.close
DrainedAtOnce == TRUE

\* server.close calls back once the server has stopped listening and every
\* connection has ended: no request is between its arrival and its response
Drained == \A r \in Requests : pc[r] \in {"idle", "done"}

\* process.on(sig, ...): the handler calls server.close(callback); the server
\* stops accepting connections and keeps the open ones.  A further signal
\* registers a further callback on the same close.
Signal(sig) ==
    /\ server # "exited"
    /\ signals' = signals \cup {sig}
    /\ server' = IF server = "listening" THEN "closing" ELSE server
    /\ UNCHANGED <<dbVars, now, pc, localVars, histVars, responses, route, prisma>>

\* the close callback runs: process.exit(0)
ServerClosed ==
    /\ server = "closing"
    /\ Drained
    /\ server' = "exited"
    /\ UNCHANGED <<dbVars, now, pc, localVars, histVars, responses, route, prisma, signals>>

\* ------------------------------------------------------------ other systems
\* Another system opts the customer out.
OptOut(id) ==
    /\ reviewRequests[id].status # "OPTED_OUT"
    /\ ~RowLocked(id)
    /\ reviewRequests' = [reviewRequests EXCEPT ![id].status = "OPTED_OUT"]
    /\ UNCHANGED <<events, businesses, customers, now, pc, localVars, histVars,
                   responses, route, procVars>>

\* Another system deactivates the request.
Deactivate(id) ==
    /\ reviewRequests[id].is_active
    /\ ~RowLocked(id)
    /\ reviewRequests' = [reviewRequests EXCEPT ![id].is_active = FALSE]
    /\ UNCHANGED <<events, businesses, customers, now, pc, localVars, histVars,
                   responses, route, procVars>>

\* ------------------------------------------------------------ specifications
\* The server handling requests reqs for the identifiers ids while other
\* systems change the rows ext.
Handle(reqs, ids) ==
    \/ \E r \in reqs, id \in ids : Receive(r, id)
    \/ \E r \in reqs : FindUnique(r)
    \/ \E r \in reqs : FindUniqueFails(r)
    \/ \E r \in reqs : TxUpdate(r)
    \/ \E r \in reqs : TxCreate(r)
    \/ \E r \in reqs : TxFails(r)
    \/ \E r \in reqs : EventCreate(r)
    \/ \E r \in reqs : EventCreateFails(r)

Other(ext) ==
    \/ \E id \in ext : OptOut(id)
    \/ \E id \in ext : Deactivate(id)

\* Every request of the run contends for row 1: its identifier is the
\* tracking_uuid of row 1 or one that no row has.
Next == Handle(Requests, ContendedIds) \/ Other({1})

Spec == Init /\ [][Next]_vars

\* Fewer requests, over every identifier and both rows.
NextWide == Handle(1..MaxWideRequests, Identifiers) \/ Other(RowIds)

SpecWide == Init /\ [][NextWide]_vars

\* The completion of the Data Store call request r awaits: it returns or it fails.
Step(r) ==
    \/ FindUnique(r) \/ FindUniqueFails(r)
    \/ TxUpdate(r) \/ TxCreate(r) \/ TxFails(r)
    \/ EventCreate(r) \/ EventCreateFails(r)

\* The server between its start and its exit: requests contend for row 1
\* while termination signals arrive.  Every awaited call eventually returns
\* or fails, and the close callback runs once the server has drained.
Shutdown ==
    \/ \E sig \in TerminationSignals : Signal(sig)
    \/ ServerClosed

NextLifecycle == Handle(1..MaxWideRequests, ContendedIds) \/ Shutdown

SpecLifecycle ==
    /\ Init
    /\ [][NextLifecycle]_vars
    /\ \A r \in 1..MaxWideRequests : WF_vars(Step(r))
    /\ WF_vars(ServerClosed)

\* The server whose client construction may have failed, serving its three routes.
InitAnyClient ==
    \E constructed \in BOOLEAN :
        InitWith(InstallClient(CreatePrismaClient(constructed)),
                 InitBusiness(1).google_review_url, InitRow(1).review_url,
                 InitBusiness(1).website)

Routes(reqs) ==
    \/ \E r \in reqs : Health(r)
    \/ \E r \in reqs : Root(r)

NextDegraded == Handle(1..MaxWideRequests, {IdNine, IdInvalidUuid, IdUuid1}) \/ Routes(1..MaxWideRequests)

SpecDegraded == InitAnyClient /\ [][NextDegraded]_vars

\* Row 1 with every combination of null, empty and set links.
InitRedirect ==
    \E google \in {NoUrl, <<"">>, <<GoogleReviewUrl1>>},
       review \in {NoUrl, <<"">>, <<ReviewUrl1>>},
       website \in {NoUrl, <<"">>, <<Website1>>} :
        InitWith(InstallClient(CreatePrismaClient(TRUE)), google, review, website)

NextRedirect == Handle(1..MaxWideRequests, {IdUuid1})

SpecRedirect == InitRedirect /\ [][NextRedirect]_vars

\* ------------------------------------------------------------ vocabulary of the claims
Done(r) == pc[r] = "done"
Found(r) == reviewRequest[r] # <<>>
Row(r) == reviewRequest[r][1]
\* is_active = false or status = OPTED_OUT
GateClosed(row) == ~row.is_active \/ row.status = "OPTED_OUT"
\* the request reached the mutation step: its lookup found an active row
ReachedMutation(r) == Found(r) /\ ~GateClosed(Row(r))
FirstClickPath(r) == ReachedMutation(r) /\ Row(r).clicked_at = NullTime
RepeatClickPath(r) == ReachedMutation(r) /\ Row(r).clicked_at # NullTime
\* the committed writes of request r of one kind
WritesOf(r, op) == {i \in 1..Len(commits[r]) : commits[r][i].write.op = op}
\* the calls of request r of one name
CallsOf(r, name) == {i \in 1..Len(calls[r]) : calls[r][i] = name}
\* the Event rows of one ReviewRequest with one value of isFirstClick
EventsOf(id, first) ==
    {i \in 1..Len(events) : events[i].review_request_id = id /\ events[i].isFirstClick = first}
\* the timestamps written by the updates that met clicked_at = null on row id:
\* the time of its first click
FirstClickTimes(id) ==
    UNION { { commits[r][i].write.clicked_at :
                i \in {j \in WritesOf(r, "update") :
                         /\ commits[r][j].write.id = id
                         /\ commits[r][j].before.clicked_at = NullTime} } :
            r \in Requests }
\* the requests answered 200 on the repeat-click path for row id
RepeatClicksServed(id) ==
    {r \in Requests : /\ RepeatClickPath(r) /\ Row(r).id = id
                      /\ responses[r] = <<[status |-> 200, firstClick |-> FALSE]>>}

\* ------------------------------------------------------------ C1
\* C1: a request whose lookup found an active, not opted-out row with
\* clicked_at = null, and none of whose Data Store calls rejected, ends having
\* committed exactly one ReviewRequest update (leaving status CLICKED and
\* clicked_at non-null) and exactly one Event insert with isFirstClick = true,
\* both issued inside its one transaction, and having answered 200 with the
\* first-click flag true.
C1_FirstClick ==
    \A r \in Requests :
        (Done(r) /\ FirstClickPath(r) /\ rejected[r] = "none") =>
            /\ Len(commits[r]) = 2
            /\ commits[r][1].write.op = "update"
            /\ commits[r][1].write.id = Row(r).id
            /\ commits[r][1].after.status = "CLICKED"
            /\ commits[r][1].after.clicked_at # NullTime
            /\ commits[r][2].write.op = "insert"
            /\ commits[r][2].write.event[1].review_request_id = Row(r).id
            /\ commits[r][2].write.event[1].isFirstClick = TRUE
            /\ calls[r] = <<"findUnique", "$transaction",
                            "tx.reviewRequest.update", "tx.event.create">>
            /\ responses[r] = <<[status |-> 200, firstClick |-> TRUE]>>

\* a first click was served
C1_Witness ==
    \E r \in Requests :
        /\ Done(r) /\ FirstClickPath(r) /\ rejected[r] = "none"
        /\ reviewRequests[Row(r).id].status = "CLICKED"
        /\ EventsOf(Row(r).id, TRUE) # {}

\* ------------------------------------------------------------ C2
\* C2: every request whose lookup found an active row with clicked_at set, and
\* none of whose calls rejected, commits no ReviewRequest update and exactly
\* one Event insert with isFirstClick = false whose previousClickAt is the
\* timestamp the first click on that row set, and answers 200 with the
\* first-click flag false.
C2_RepeatClick ==
    \A r \in Requests :
        (Done(r) /\ RepeatClickPath(r) /\ rejected[r] = "none") =>
            /\ WritesOf(r, "update") = {}
            /\ Len(commits[r]) = 1
            /\ commits[r][1].write.op = "insert"
            /\ commits[r][1].write.event[1].isFirstClick = FALSE
            /\ commits[r][1].write.event[1].previousClickAt \in FirstClickTimes(Row(r).id)
            /\ responses[r] = <<[status |-> 200, firstClick |-> FALSE]>>

\* ------------------------------------------------------------ C3
\* C3: the update and the Event insert of a first-click request are committed
\* both or not at all; a request whose transaction rejected has committed
\* nothing, and a first click answered 200 has committed both.  In the tables:
\* a row has clicked_at set exactly when it has an Event with isFirstClick = true.
C3_Atomicity ==
    /\ \A r \in Requests :
          FirstClickPath(r) =>
              /\ \/ commits[r] = <<>>
                 \/ /\ Len(commits[r]) = 2
                    /\ commits[r][1].write.op = "update"
                    /\ commits[r][2].write.op = "insert"
                    /\ commits[r][1].write.id = commits[r][2].write.id
              /\ rejected[r] # "none" => commits[r] = <<>>
              /\ (responses[r] # <<>> /\ responses[r][1].status = 200) => Len(commits[r]) = 2
    /\ \A id \in RowIds :
          reviewRequests[id].clicked_at # NullTime <=> EventsOf(id, TRUE) # {}

\* the Event insert of a transaction rejected after its update had run, and the
\* row keeps clicked_at = null and its status
C3_Witness ==
    \E r \in Requests :
        /\ FirstClickPath(r) /\ rejected[r] = "txCreate"
        /\ "tx.reviewRequest.update" \in {calls[r][i] : i \in 1..Len(calls[r])}
        /\ reviewRequests[Row(r).id].clicked_at = NullTime
        /\ reviewRequests[Row(r).id].status = "PENDING"

\* ------------------------------------------------------------ C4
\* C4: a request whose looked-up row has is_active = false or status =
\* OPTED_OUT is answered 410 and writes nothing, whatever clicked_at is: it
\* issues no call after the lookup and commits no write.
C4_ActivityGate ==
    \A r \in Requests :
        (Found(r) /\ GateClosed(Row(r))) =>
            /\ responses[r] = <<[status |-> 410, firstClick |-> FALSE]>>
            /\ calls[r] = <<"findUnique">>
            /\ commits[r] = <<>>
            /\ txbuf[r] = <<>>

\* an opted-out row that had been clicked before was asked for
C4_Witness ==
    \E r \in Requests :
        /\ Found(r) /\ Row(r).status = "OPTED_OUT" /\ Row(r).is_active
        /\ Row(r).clicked_at # NullTime
        /\ Done(r)

\* ------------------------------------------------------------ C5
\* C5: no committed write of a tracking request (update or Event insert) met a
\* stored row that was opted out or inactive at commit time, and no commit
\* replaced a stored status OPTED_OUT.
C5_NoWriteOnceOptedOut ==
    \A r \in Requests : \A i \in 1..Len(commits[r]) :
        /\ ~GateClosed(commits[r][i].before)
        /\ commits[r][i].before.status = "OPTED_OUT" => commits[r][i].after.status = "OPTED_OUT"

\* ------------------------------------------------------------ C6
\* C6: no committed update of a tracking request met a stored row whose
\* clicked_at was already set (clicked_at is written at most once).
C6_ClickedAtSetOnce ==
    \A r \in Requests : \A i \in WritesOf(r, "update") :
        commits[r][i].before.clicked_at = NullTime

\* ------------------------------------------------------------ C7
\* C7: the repeat clicks served on a row are as many as its Event rows with
\* isFirstClick = false, and each of them committed that one insert and left
\* the ReviewRequest row (clicked_at, status, click_metadata) as it met it.
C7_RepeatIdempotent ==
    \A id \in RowIds :
        /\ Cardinality(RepeatClicksServed(id)) = Cardinality(EventsOf(id, FALSE))
        /\ \A r \in RepeatClicksServed(id) :
              /\ Len(commits[r]) = 1
              /\ commits[r][1].write.op = "insert"
              /\ commits[r][1].after = commits[r][1].before

\* two repeat clicks were served on one row
C7_Witness ==
    \E id \in RowIds :
        /\ Cardinality(RepeatClicksServed(id)) = 2
        /\ Cardinality(EventsOf(id, FALSE)) = 2

\* ------------------------------------------------------------ C8
\* C8 as stated: every request issues at most one transaction, and every
\* finished request that reached the mutation step has created exactly one
\* Event.
C8_ExactlyOneEvent ==
    \A r \in Requests :
        /\ Cardinality(CallsOf(r, "$transaction")) <= 1
        /\ (Done(r) /\ ReachedMutation(r)) => Cardinality(WritesOf(r, "insert")) = 1

\* C8 as amended: every request issues at most one transaction; a finished
\* request that reached the mutation step has created exactly one Event when
\* none of its calls rejected and none when one did; no request ever creates
\* more than one.
C8_OneEventUnlessRejected ==
    \A r \in Requests :
        /\ Cardinality(CallsOf(r, "$transaction")) <= 1
        /\ Cardinality(WritesOf(r, "insert")) <= 1
        /\ (Done(r) /\ ReachedMutation(r) /\ rejected[r] = "none")
              => Cardinality(WritesOf(r, "insert")) = 1
        /\ rejected[r] # "none" => WritesOf(r, "insert") = {}

\* one request created its Event while the write of another, on the same row,
\* rejected
C8_Witness ==
    \E r, q \in Requests :
        /\ Done(r) /\ ReachedMutation(r) /\ rejected[r] = "none"
        /\ Cardinality(WritesOf(r, "insert")) = 1
        /\ Done(q) /\ ReachedMutation(q) /\ rejected[q] \in {"txUpdate", "txCreate", "eventCreate"}
        /\ WritesOf(q, "insert") = {}

C10_UuidFormatValidated ==
    \A r \in Requests :
        (pc[r] # "idle" /\ ~IsWellFormedUuid(uuid[r])) =>
            /\ CallsOf(r, "findUnique") = {}
            /\ Done(r) => responses[r] = <<[status |-> 400, firstClick |-> FALSE]>>

\* ------------------------------------------------------------ C11
\* identifiers of valid length that are the tracking_uuid of no row
Unknown(id) == Len(id) >= 10 /\ \A k \in RowIds : TrackingUuid(k) # id

\* C11 as stated: every request whose identifier has a valid length and matches
\* no ReviewRequest is answered 404 and writes nothing.
C11_NotFound ==
    \A r \in Requests :
        (pc[r] # "idle" /\ Unknown(uuid[r])) =>
            /\ Done(r) => responses[r] = <<[status |-> 404, firstClick |-> FALSE]>>
            /\ commits[r] = <<>>
            /\ txbuf[r] = <<>>

\* C11 as amended: every request whose identifier has a valid length and
\* matches no ReviewRequest issues the lookup and nothing else, commits no
\* write, and is answered 404 when the lookup returned (with no row) and 500
\* when the lookup itself rejected; it is never answered 200 or 410.
C11_NotFoundUnlessRejected ==
    \A r \in Requests :
        (pc[r] # "idle" /\ Unknown(uuid[r])) =>
            /\ calls[r] = <<"findUnique">>
            /\ reviewRequest[r] = <<>>
            /\ commits[r] = <<>>
            /\ txbuf[r] = <<>>
            /\ (Done(r) /\ rejected[r] = "none") =>
                  responses[r] = <<[status |-> 404, firstClick |-> FALSE]>>
            /\ (Done(r) /\ rejected[r] # "none") =>
                  /\ rejected[r] = "findUnique"
                  /\ responses[r] = <<[status |-> 500, firstClick |-> FALSE]>>

\* an unknown identifier was answered 404 while the tables already held a
\* click, and the tables are as the click left them
C11_Witness ==
    \E r, q \in Requests :
        /\ Unknown(uuid[r]) /\ Done(r) /\ responses[r][1].status = 404
        /\ Done(q) /\ Len(commits[q]) = 2
        /\ events = <<commits[q][2].write.event[1]>>

\* ------------------------------------------------------------ C12
\* C12: a request one of whose Data Store calls rejected (the lookup, the
\* transaction at its update or at its insert and commit, or the standalone
\* insert) is answered 500 and nothing else, has committed no write and holds
\* none; and the rejection leaves the server as it was: as long as no
\* termination signal has arrived it listens, and the next request can arrive.
C12_FailureMapping ==
    \A r \in Requests :
        rejected[r] # "none" =>
            /\ rejected[r] \in {"findUnique", "txUpdate", "txCreate", "eventCreate"}
            /\ responses[r] = <<[status |-> 500, firstClick |-> FALSE]>>
            /\ commits[r] = <<>>
            /\ txbuf[r] = <<>>
            /\ redirectUrl[r] = <<>>
            /\ signals = {} =>
                  /\ server = "listening"
                  /\ \A q \in 1..MaxWideRequests :
                        (pc[q] = "idle" /\ \A p \in Requests : p < q => pc[p] # "idle")
                            => ENABLED Receive(q, IdUuid1)

\* the transaction of one request rejected after its update had run, and the
\* request that arrived after it was served its first click
C12_Witness ==
    \E r, q \in Requests :
        /\ r < q
        /\ rejected[r] = "txCreate" /\ responses[r][1].status = 500
        /\ rejected[q] = "none" /\ Len(commits[q]) = 2
        /\ responses[q] = <<[status |-> 200, firstClick |-> TRUE]>>
        /\ Len(events) = 1

\* ------------------------------------------------------------ C13
\* a link that is neither null nor the empty string
NonEmpty(v) == v # <<>> /\ v[1] # ""
\* the first non-empty of the business's Google link, the request's review
\* link and the business's website, in that order, else the fallback
FirstNonEmpty(row) ==
    LET links == <<row.businesses.google_review_url, row.review_url, row.businesses.website>>
        set == {i \in 1..3 : NonEmpty(links[i])}
    IN  IF set = {} THEN <<"https://google.com/maps">>
        ELSE links[CHOOSE i \in set : \A j \in set : i <= j]

\* C13: the redirect URL of every request answered 200 is the first non-empty
\* of google_review_url, review_url and website of the row it looked up, in
\* that order, and the hardcoded fallback when all three are null or empty; so
\* it is never empty.  A request not answered 200 resolved no redirect URL.
C13_RedirectResolution ==
    \A r \in Requests :
        /\ (responses[r] # <<>> /\ responses[r][1].status = 200) =>
              /\ redirectUrl[r] = FirstNonEmpty(Row(r))
              /\ NonEmpty(redirectUrl[r])
        /\ (responses[r] = <<>> \/ responses[r][1].status # 200) => redirectUrl[r] = <<>>

\* a request was answered 200 with the website, the Google link being the
\* empty string and the review link null
C13_Witness ==
    \E r \in Requests :
        /\ responses[r] # <<>> /\ responses[r][1].status = 200
        /\ Row(r).businesses.google_review_url = <<"">>
        /\ Row(r).review_url = <<>>
        /\ redirectUrl[r] = Row(r).businesses.website
        /\ redirectUrl[r] = <<"https://example.com">>

\* ------------------------------------------------------------ C14
\* the statuses a tracking request can be answered with
TrackingStatuses == {200, 400, 404, 410, 500}

\* C14: a tracking request has no response while its handler runs and exactly
\* one, with status 200, 400, 404, 410 or 500, once it has finished; and every
\* tracking request that arrived eventually finishes, given that each Data
\* Store call it awaits eventually returns or fails.
C14_ExactlyOneResponse ==
    /\ [](\A r \in Requests :
            /\ Len(responses[r]) <= 1
            /\ (route[r] = "/:uuid" /\ ~Done(r)) => responses[r] = <<>>
            /\ (route[r] = "/:uuid" /\ Done(r)) =>
                  /\ Len(responses[r]) = 1
                  /\ responses[r][1].status \in TrackingStatuses)
    /\ \A r \in Requests :
          (route[r] = "/:uuid") ~> (Done(r) /\ Len(responses[r]) = 1)

\* one finished request waited at the row lock another request's open
\* transaction held: two first-click transactions committed, one after the other
C14_Witness ==
    \E r, q \in Requests :
        /\ r # q
        /\ Done(r) /\ Done(q)
        /\ Len(commits[r]) = 2 /\ Len(commits[q]) = 2
        /\ commits[q][1].before.clicked_at = commits[r][1].after.clicked_at
        /\ responses[r][1].status = 200 /\ responses[q][1].status = 200

\* ------------------------------------------------------------ C15
\* request r is between its arrival and its response
InFlight(r) == pc[r] \notin {"idle", "done"}

\* C15: the process has exited only if a termination signal (SIGTERM or
\* SIGINT) was delivered and no request is in flight; while no signal has been
\* delivered the server listens, whatever Data Store calls have rejected; and
\* a server that has stopped listening has not exited while a request is in
\* flight.
C15_ExitOnlyAfterSignalAndDrain ==
    /\ server = "exited" =>
          /\ signals # {}
          /\ signals \subseteq {"SIGTERM", "SIGINT"}
          /\ \A r \in Requests : ~InFlight(r)
    /\ signals = {} => server = "listening"
    /\ (\E r \in Requests : InFlight(r)) => server \in {"listening", "closing"}

\* the process exited after SIGTERM alone, having answered 500 to a request
\* whose Data Store call rejected and 200 to another
C15_Witness ==
    \E r, q \in Requests :
        /\ server = "exited" /\ signals = {"SIGTERM"}
        /\ rejected[r] # "none" /\ Done(r)
        /\ rejected[q] = "none" /\ Done(q) /\ responses[q][1].status = 200

\* ------------------------------------------------------------ C16
\* the requests whose first-click transaction on row id committed
FirstClickCommitters(id) ==
    {r \in Requests : /\ Len(commits[r]) = 2
                      /\ commits[r][1].write.op = "update"
                      /\ commits[r][1].write.id = id}

\* C16: nothing serialises the lookup of one request with the transaction of
\* another.  Every request whose first-click transaction committed had read
\* clicked_at = null at its lookup, whatever the row held when it committed,
\* was told it was the first click, and left its own Event with isFirstClick =
\* true: a row has as many such Events as transactions committed on it, one
\* per request, and the number is not capped at one.
C16_KnownRace ==
    \A id \in RowIds :
        /\ \A r \in FirstClickCommitters(id) :
              /\ Row(r).id = id
              /\ Row(r).clicked_at = NullTime
              /\ commits[r][2].write.event[1].isFirstClick = TRUE
              /\ responses[r] = <<[status |-> 200, firstClick |-> TRUE]>>
        /\ Cardinality(EventsOf(id, TRUE)) = Cardinality(FirstClickCommitters(id))

\* the race: two requests both read clicked_at = null, the transaction of
\* the second met clicked_at already set by the first, and the row has two
\* Events with isFirstClick = true
C16_Witness ==
    \E r, q \in Requests :
        /\ r # q
        /\ {r, q} \subseteq FirstClickCommitters(1)
        /\ Row(r).clicked_at = NullTime /\ Row(q).clicked_at = NullTime
        /\ commits[r][1].before.clicked_at = NullTime
        /\ commits[q][1].before.clicked_at # NullTime
        /\ Cardinality(EventsOf(1, TRUE)) = 2

\* ------------------------------------------------------------ C17
\* the call sequences a request can have issued: the lookup, then at most one
\* write attempt, a transaction (with its two statements once it has run its
\* callback) or a standalone insert
AllowedCalls ==
    { <<>>,
      <<"findUnique">>,
      <<"findUnique", "$transaction">>,
      <<"findUnique", "$transaction", "tx.reviewRequest.update", "tx.event.create">>,
      <<"findUnique", "event.create">> }

\* C17: every request issues at most one lookup and at most one write
\* attempt, one transaction or one standalone insert and never both; a
\* request one of whose calls rejected has finished, with the calls it had
\* issued up to the rejection and no further one.
C17_SingleAttempt ==
    \A r \in Requests :
        /\ calls[r] \in AllowedCalls
        /\ Cardinality(CallsOf(r, "findUnique")) <= 1
        /\ Cardinality(CallsOf(r, "$transaction")) + Cardinality(CallsOf(r, "event.create")) <= 1
        /\ rejected[r] # "none" =>
              /\ Done(r)
              /\ Len(responses[r]) = 1
              /\ rejected[r] = "findUnique" => calls[r] = <<"findUnique">>
              /\ rejected[r] = "txUpdate" => calls[r] = <<"findUnique", "$transaction">>
              /\ rejected[r] = "txCreate" =>
                    calls[r] = <<"findUnique", "$transaction",
                                 "tx.reviewRequest.update", "tx.event.create">>
              /\ rejected[r] = "eventCreate" => calls[r] = <<"findUnique", "event.create">>

\* the transaction of one request rejected after its two statements had been
\* issued, the standalone insert of another rejected, and neither request
\* issued a call after the rejection
C17_Witness ==
    \E q, t \in Requests :
        /\ rejected[q] = "txCreate" /\ Done(q)
        /\ calls[q] = <<"findUnique", "$transaction",
                        "tx.reviewRequest.update", "tx.event.create">>
        /\ rejected[t] = "eventCreate" /\ Done(t)
        /\ calls[t] = <<"findUnique", "event.create">>

\* ------------------------------------------------------------ C18
\* the requests that commit in this step
Committing == {r \in Requests : commits'[r] # commits[r]}

\* C18: in every step the Customer and Business tables stay as they are and
\* every existing Event keeps its place and its content, the Event table
\* growing at its end only; a step in which a request commits changes nothing
\* of the ReviewRequest table but clicked_at, status and click_metadata of the
\* row that request looked up; and a step in which no request commits inserts
\* no Event and changes no clicked_at and no click_metadata.
C18_Frame ==
    [][ /\ businesses' = businesses
        /\ customers' = customers
        /\ Len(events') >= Len(events)
        /\ \A i \in 1..Len(events) : events'[i] = events[i]
        /\ \A i \in (Len(events) + 1)..Len(events') :
              \E r \in Committing : /\ Found(r)
                                    /\ events'[i].review_request_id = Row(r).id
        /\ \A id \in RowIds :
              /\ reviewRequests'[id].id = reviewRequests[id].id
              /\ reviewRequests'[id].review_url = reviewRequests[id].review_url
              /\ Committing # {} =>
                    /\ reviewRequests'[id].is_active = reviewRequests[id].is_active
                    /\ reviewRequests'[id] # reviewRequests[id] =>
                          /\ \E r \in Committing : Found(r) /\ Row(r).id = id
                          /\ reviewRequests'[id].status = "CLICKED"
              /\ Committing = {} =>
                    /\ reviewRequests'[id].clicked_at = reviewRequests[id].clicked_at
                    /\ reviewRequests'[id].click_metadata = reviewRequests[id].click_metadata
      ]_vars

\* the tables after a first click and a repeat click on row 1: its two Events
\* in the order they were inserted, row 2 and the Business and Customer of
\* row 1 as they were at the start
C18_Witness ==
    /\ Len(events) = 2
    /\ events[1].isFirstClick = TRUE /\ events[2].isFirstClick = FALSE
    /\ reviewRequests[1].status = "CLICKED"
    /\ reviewRequests[1].review_url = <<"https://example.com/review">>
    /\ reviewRequests[2].clicked_at = NullTime
    /\ businesses[1].google_review_url = <<"https://g.page/r/review">>
    /\ customers[1].first_name = "Customer"

\* ------------------------------------------------------------ C19
\* C19: the exported client is the constructed one or the mock, never null;
\* requests to /health and / are answered 200 and issue no Data Store call;
\* and when the mock is installed the server keeps listening, nothing is
\* written, a tracking request whose identifier is shorter than 10 characters
\* is answered 400 without a call, and one whose identifier has 10 characters
\* or more issues the lookup only, can always take its rejection while it
\* waits, and is answered 500.
C19_DegradedClient ==
    /\ prisma \in {"client", "mock"}
    /\ \A r \in Requests :
          route[r] \in {"/health", "/"} =>
              /\ responses[r] = <<[status |-> 200, firstClick |-> FALSE]>>
              /\ calls[r] = <<>>
              /\ commits[r] = <<>>
    /\ prisma = "mock" =>
          /\ server = "listening"
          /\ events = <<>>
          /\ \A r \in Requests :
                /\ commits[r] = <<>>
                /\ (route[r] = "/:uuid" /\ Len(uuid[r]) < 10) =>
                      /\ responses[r] = <<[status |-> 400, firstClick |-> FALSE]>>
                      /\ calls[r] = <<>>
                /\ (route[r] = "/:uuid" /\ Len(uuid[r]) >= 10) =>
                      /\ calls[r] = <<"findUnique">>
                      /\ ~Done(r) => (responses[r] = <<>> /\ ENABLED FindUniqueFails(r))
                      /\ Done(r) =>
                            /\ rejected[r] = "findUnique"
                            /\ responses[r] = <<[status |-> 500, firstClick |-> FALSE]>>

\* with the mock installed, the identifier of row 1 was answered 500 and
\* /health was answered 200 after it
C19_Witness ==
    \E r, q \in Requests :
        /\ prisma = "mock"
        /\ r < q
        /\ uuid[r] = IdUuid1 /\ Done(r) /\ responses[r][1].status = 500
        /\ route[q] = "/health" /\ Done(q) /\ responses[q][1].status = 200

\* ------------------------------------------------------------ C20
\* the committed updates on row id, each named by its request and its place
\* among that request's commits
UpdatesOn(id) ==
    UNION { { <<r, i>> : i \in {j \in WritesOf(r, "update") : commits[r][j].write.id = id} } :
            r \in Requests }

\* C20: every row has as many Events with isFirstClick = true as updates
\* committed on it by the handler; a request that committed an Event with
\* isFirstClick = false committed no update, and one that committed an Event
\* with isFirstClick = true committed exactly one update, on the same row,
\* before it.
C20_EventUpdateLinkage ==
    /\ \A id \in RowIds :
          Cardinality(EventsOf(id, TRUE)) = Cardinality(UpdatesOn(id))
    /\ \A r \in Requests : \A i \in WritesOf(r, "insert") :
          IF commits[r][i].write.event[1].isFirstClick
          THEN /\ i = 2
               /\ WritesOf(r, "update") = {1}
               /\ commits[r][1].write.id = commits[r][i].write.id
          ELSE WritesOf(r, "update") = {}

\* row 1 after two racing first clicks and a repeat click: two updates, two
\* Events with isFirstClick = true, one with isFirstClick = false
C20_Witness ==
    /\ Cardinality(UpdatesOn(1)) = 2
    /\ Cardinality(EventsOf(1, TRUE)) = 2
    /\ Cardinality(EventsOf(1, FALSE)) = 1

\* ------------------------------------------------------------ C21
\* the requests answered 200 for row id
Answered200(id) ==
    {r \in Requests : /\ responses[r] # <<>> /\ responses[r][1].status = 200
                      /\ Found(r) /\ Row(r).id = id}

\* C21: a request has been answered 200 only if its Event insert is
\* committed, together with its update when it took the first-click path, and
\* no write of it is still uncommitted; a request whose write is not yet
\* committed has no response.  So every row has at least as many Events as
\* 200 responses sent for it.
C21_ResponseAfterCommit ==
    /\ \A r \in Requests :
          /\ (responses[r] # <<>> /\ responses[r][1].status = 200) =>
                /\ Found(r)
                /\ txbuf[r] = <<>>
                /\ Cardinality(WritesOf(r, "insert")) = 1
                /\ \A i \in WritesOf(r, "insert") : commits[r][i].write.id = Row(r).id
                /\ Row(r).clicked_at = NullTime => Cardinality(WritesOf(r, "update")) = 1
          /\ pc[r] \in {"txUpdate", "txCreate", "eventCreate"} =>
                /\ responses[r] = <<>>
                /\ commits[r] = <<>>
    /\ \A id \in RowIds :
          Cardinality(EventsOf(id, TRUE)) + Cardinality(EventsOf(id, FALSE))
              >= Cardinality(Answered200(id))

\* row 2 has the Events of a first click and of a repeat click, both answered
\* 200, while row 1 has none
C21_Witness ==
    /\ Cardinality(Answered200(2)) = 2
    /\ Cardinality(EventsOf(2, TRUE)) = 1
    /\ Cardinality(EventsOf(2, FALSE)) = 1
    /\ Answered200(1) = {}

\* ------------------------------------------------------------ C22
\* request r took the first-click path on row id and its transaction rejected
FailedFirstClick(r, id) ==
    /\ Found(r) /\ Row(r).id = id /\ Row(r).clicked_at = NullTime
    /\ rejected[r] \in {"txUpdate", "txCreate"}

\* no request other than q has committed a write on row id
OnlyWriter(q, id) ==
    \A t \in Requests \ {q} : \A i \in 1..Len(commits[t]) : commits[t][i].write.id # id

\* C22: a first-click request whose transaction rejected is answered 500 and
\* has committed nothing, so a row on which no transaction has committed
\* still has clicked_at = null.  A further request for that row, with no
\* other writer, reads clicked_at = null, takes the first-click path with
\* its own transaction, and once it is answered without a rejection it has
\* set clicked_at and left the row's one Event with isFirstClick = true.
C22_RetryAfterFailedFirstClick ==
    \A id \in RowIds : \A r \in Requests :
        FailedFirstClick(r, id) =>
            /\ responses[r] = <<[status |-> 500, firstClick |-> FALSE]>>
            /\ commits[r] = <<>>
            /\ OnlyWriter(r, id) =>
                  /\ reviewRequests[id].clicked_at = NullTime
                  /\ EventsOf(id, TRUE) = {}
            /\ \A q \in Requests \ {r} :
                  (Found(q) /\ Row(q).id = id /\ OnlyWriter(q, id)) =>
                      /\ Row(q).clicked_at = NullTime
                      /\ ~GateClosed(Row(q)) =>
                            /\ isFirstClick[q]
                            /\ CallsOf(q, "$transaction") # {}
                            /\ CallsOf(q, "event.create") = {}
                      /\ (Done(q) /\ ~GateClosed(Row(q)) /\ rejected[q] = "none") =>
                            /\ responses[q] = <<[status |-> 200, firstClick |-> TRUE]>>
                            /\ reviewRequests[id].clicked_at # NullTime
                            /\ reviewRequests[id].clicked_at = commits[q][1].write.clicked_at
                            /\ Cardinality(EventsOf(id, TRUE)) = 1
                            /\ EventsOf(id, FALSE) = {}

\* the transaction of the first request rejected after its update had run;
\* the next request met clicked_at = null in the table, set it, and its Event
\* is the row's only one
C22_Witness ==
    \E r, q \in Requests :
        /\ r < q
        /\ FailedFirstClick(r, 1) /\ rejected[r] = "txCreate"
        /\ Done(q) /\ rejected[q] = "none" /\ OnlyWriter(q, 1)
        /\ Len(commits[q]) = 2 /\ commits[q][1].before.clicked_at = NullTime
        /\ reviewRequests[1].clicked_at = commits[q][1].write.clicked_at
        /\ events = <<commits[q][2].write.event[1]>> /\ events[1].isFirstClick = TRUE

\* ------------------------------------------------------------ C23
\* the status a finished request must have, from its identifier, the row its
\* lookup returned and the rejection of its calls alone
StatusOf(r) ==
    IF Len(uuid[r]) < 10 THEN 400
    ELSE IF rejected[r] # "none" THEN 500
    ELSE IF ~Found(r) THEN 404
    ELSE IF GateClosed(Row(r)) THEN 410
    ELSE 200

\* the row whose tracking_uuid is the identifier of request r
OwnRow(r, id) == TrackingUuid(id) = uuid[r]

\* C23: the status of every finished tracking request is determined by its
\* identifier, the row the lookup returned for that identifier and the
\* rejection of its own calls; the row a lookup returns is the table's row
\* of that identifier as it is at the lookup; a request waits at its update
\* for an open transaction on its own row only; and a step in which requests
\* commit changes no ReviewRequest row and adds no Event but those of the
\* committing requests' identifiers, every existing Event staying as it is.
C23_NonInterference ==
    /\ [](\A r \in Requests :
            /\ (route[r] = "/:uuid" /\ Done(r)) =>
                  responses[r] = <<[status |-> StatusOf(r),
                                    firstClick |-> (StatusOf(r) = 200 /\ Row(r).clicked_at = NullTime)]>>
            /\ Found(r) => OwnRow(r, Row(r).id)
            /\ \A i \in 1..Len(commits[r]) : OwnRow(r, commits[r][i].write.id)
            /\ (pc[r] = "txUpdate"
                  /\ \A q \in Requests : txbuf[q] # <<>> => ~OwnRow(r, txbuf[q][1].id))
                  => ENABLED TxUpdate(r))
    /\ [][ /\ \A r \in Requests :
                (reviewRequest[r] = <<>> /\ reviewRequest'[r] # <<>>) =>
                    LET id == reviewRequest'[r][1].id
                    IN  /\ OwnRow(r, id)
                        /\ reviewRequest'[r][1].is_active = reviewRequests[id].is_active
                        /\ reviewRequest'[r][1].status = reviewRequests[id].status
                        /\ reviewRequest'[r][1].clicked_at = reviewRequests[id].clicked_at
           /\ Committing # {} =>
                /\ \A id \in RowIds :
                      reviewRequests'[id] # reviewRequests[id] =>
                          \E r \in Committing : OwnRow(r, id)
                /\ \A i \in 1..Len(events) : events'[i] = events[i]
                /\ \A i \in (Len(events) + 1)..Len(events') :
                      \E r \in Committing : OwnRow(r, events'[i].review_request_id)
         ]_vars

\* a first click on row 1 committed while the transaction of a request for
\* row 2 was open: row 2 is as it started and has no Event
C23_Witness ==
    \E r, q \in Requests :
        /\ uuid[r] = IdUuid1 /\ Done(r) /\ Len(commits[r]) = 2
        /\ uuid[q] = IdOpaque2 /\ pc[q] = "txCreate" /\ txbuf[q] # <<>>
        /\ reviewRequests[1].status = "CLICKED"
        /\ reviewRequests[2] = InitRow(2)
        /\ EventsOf(2, TRUE) = {} /\ EventsOf(2, FALSE) = {}

====
